---- MODULE Spec2Model ----
(***************************************************************************)
(* State-machine model of the after-school lessons HTTP API:               *)
(*   src/index.js      GET /lessons, GET /search, POST /orders,            *)
(*                     PUT /lessons/:id                                    *)
(*   src/index.old.js  updateLessonSpaces (which POST /orders calls),      *)
(*                     GET /orders                                         *)
(* Every request handler is an async function; between two awaits a        *)
(* handler runs without interruption, and each store operation (insertOne, *)
(* findOne, updateOne, find) is atomic at the store.  A handler is         *)
(* therefore one action per store operation it awaits.                     *)
(* The specifications of the routes start once connectToDatabase has       *)
(* completed (db is set); SpecBoot starts where the module has just been   *)
(* loaded: the server listens and connectToDatabase awaits client.connect. *)
(* The store answers every operation it is sent.                           *)
(***************************************************************************)
EXTENDS Integers, Sequences, FiniteSets, TLC

\* ------------------------------------------------------------------ bounds
NumReqs   == 2      \* request slots that can be in flight at once
MaxOrders == 2      \* orders that pass validation in one behaviour
MaxClock  == 2      \* distinct values of the millisecond clock

Reqs == 1..NumReqs

\* ------------------------------------------------------- JavaScript values
Undefined == "undefined"          \* an absent property of a JSON body
NaN       == "NaN"

\* a string that the search code inspects is a sequence of one-character strings

\* JS truthiness of a string-valued body field (name, phone)
Truthy(v) == v # Undefined /\ v # ""

\* orderData.lessons: absent, a JSON array, or a JSON object (not iterable)
LessonsAbsent   == [type |-> "undefined", items |-> <<>>]
LessonsObject   == [type |-> "object",    items |-> <<>>]
LessonsArray(s) == [type |-> "array",     items |-> s]

\* JS truthiness of orderData.lessons: arrays (also []) and objects are truthy
TruthyLessons(l) == l.type # "undefined"

\* a line item {id, quantity}, or the JSON value null
Item(id, q) == [isNull |-> FALSE, id |-> id, quantity |-> q]
NullItem    == [isNull |-> TRUE,  id |-> Undefined, quantity |-> 0]

\* ------------------------------------------------------------ identifiers
\* strings that new ObjectId(s) accepts; "id9" is well formed but names no lesson
ObjectIdStrings == {"id1", "id2", "id9"}
IdStrings       == ObjectIdStrings \cup {"zz"}

\* new ObjectId(s): the key, or a thrown BSONTypeError
ObjectId(s) == IF s \in ObjectIdStrings
               THEN [threw |-> FALSE, key |-> s, name |-> ""]
               ELSE [threw |-> TRUE,  key |-> "", name |-> "BSONTypeError"]

\* ------------------------------------------------------------- seed data
A_rt  == <<"A", "r", "t">>
C_pp  == <<"C", "+", "+">>
R_p_1 == <<"R", "+", "1">>
Lab   == <<"L", "a", "b">>

LessonFields == {"subject", "location", "price", "spaces"}

SeedLessons ==
  [k \in {"id1", "id2"} |->
     IF k = "id1"
     THEN [subject |-> A_rt, location |-> R_p_1, price |-> 10, spaces |-> 3]
     ELSE [subject |-> C_pp, location |-> Lab,  price |-> 25, spaces |-> 5]]

\* ------------------------------------------------------------ request inputs
NoBody == [name |-> Undefined, phone |-> Undefined, lessons |-> LessonsAbsent]

\* the lessons property of the well-formed order payloads that are posted
OrderLessons ==
  { LessonsObject,
    LessonsArray(<<>>),
    LessonsArray(<<Item("id1", 5)>>),
    LessonsArray(<<Item("id9", 1), Item("id1", 1)>>),
    LessonsArray(<<Item("zz", 1), Item("id2", 2)>>),
    LessonsArray(<<NullItem, Item("id2", 2)>>) }

Body(name, phone, ls) == [name |-> name, phone |-> phone, lessons |-> ls]

\* payloads that fail the validation, one way each
MalformedBodies ==
  { Body(Undefined, "07", LessonsArray(<<Item("id1", 1)>>)),
    Body("", "07", LessonsArray(<<Item("id1", 1)>>)),
    Body("Ann", Undefined, LessonsArray(<<Item("id1", 1)>>)),
    Body("Ann", "", LessonsArray(<<Item("id1", 1)>>)),
    Body("Ann", "07", LessonsAbsent) }

OrderBodies == {Body("Ann", "07", ls) : ls \in OrderLessons} \cup MalformedBodies

EmptyBody == [f \in {} |-> 0]

NoReq == [route |-> "", orderData |-> NoBody, lessonId |-> "",
          updateData |-> EmptyBody, query |-> <<>>]

NullDoc == [isNull |-> TRUE, _id |-> "", spaces |-> 0]

NoLocals == [createdAt |-> 0, orderId |-> 0, insertedId |-> 0, i |-> 0,
             lessonInDb |-> NullDoc]

NoRes == [status |-> 0, text |-> "", keys |-> {}, data |-> <<>>]

\* res.status(n).json({...}): the status, the error or message text, the keys
\* of the JSON object, and the elements when the body is an array
Json(status, text, keys) ==
  [status |-> status, text |-> text, keys |-> keys, data |-> <<>>]
JsonArray(status, arr) ==
  [status |-> status, text |-> "", keys |-> {}, data |-> arr]

\* ---------------------------------------------------------------- state
VARIABLES
  lessons,    \* collection 'lessons': _id -> document
  orders,     \* collection 'orders': documents in insertion order
  now,        \* the clock read by new Date()
  oid,        \* order identifiers minted so far by new ObjectId()
  ewSpaces,   \* the implicit global that index.old.js line 310 assigns
  pc,         \* per request slot: the await the handler is suspended at
  req,        \* per request slot: the request being served
  loc,        \* per request slot: the handler's local variables
  res,        \* per request slot: the response sent
  db,         \* the module-level store handle (index.js line 52)
  main        \* the await connectToDatabase is suspended at, or its end

vars == <<lessons, orders, now, oid, ewSpaces, pc, req, loc, res, db, main>>

store == <<lessons, orders>>

Init ==
  /\ lessons = SeedLessons
  /\ orders = <<>>
  /\ now = 1
  /\ oid = 0
  /\ ewSpaces = Undefined
  /\ pc = [r \in Reqs |-> "idle"]
  /\ req = [r \in Reqs |-> NoReq]
  /\ loc = [r \in Reqs |-> NoLocals]
  /\ res = [r \in Reqs |-> NoRes]
  /\ db = "afterschool"
  /\ main = "done"

\* the process is alive: process.exit(1) (index.js line 66) has not run
Running == main # "exited"

\* db.collection(...) on the handle as it is now throws a TypeError
DbUnset == db = Undefined

\* a slot is free before its first request and once it has answered one
Free(r) == pc[r] \in {"idle", "done"}

\* a request is served in the first free slot (the slots are interchangeable)
Accepts(r) == Running /\ Free(r) /\ \A q \in Reqs : q < r => ~Free(q)

\* the handler of slot r sends its response
Respond(r, response) ==
  /\ pc' = [pc EXCEPT ![r] = "done"]
  /\ res' = [res EXCEPT ![r] = response]

\* ------------------------------------------------------------ POST /orders
Created ==
  Json(201, "Order created successfully",
       {"success", "message", "orderId", "orderNumber"})

\* the validation with the check of phone left out
MissingRequiredFields_PhoneUnchecked(orderData) ==
  \/ ~Truthy(orderData.name)
  \/ ~TruthyLessons(orderData.lessons)

\* the validation of the payload (index.js line 137)
MissingRequiredFields(orderData) ==
  \/ ~Truthy(orderData.name)
  \/ ~Truthy(orderData.phone)
  \/ ~TruthyLessons(orderData.lessons)

\* the catch block of the route (index.js lines 169-175)
FailedToCreateOrder == Json(500, "Failed to create order", {"error", "message"})

\* the handler up to its await on insertOne
PostOrders(r, orderData) ==
  /\ Accepts(r)
  /\ req' = [req EXCEPT ![r] = [NoReq EXCEPT !.route = "POST /orders",
                                             !.orderData = orderData]]
  /\ IF MissingRequiredFields(orderData)
     THEN /\ Respond(r, Json(400, "Missing required fields", {"error", "message"}))
          /\ loc' = [loc EXCEPT ![r] = NoLocals]
          /\ UNCHANGED <<lessons, orders, now, oid, ewSpaces>>
     ELSE /\ oid < MaxOrders
          /\ loc' = [loc EXCEPT ![r] = [NoLocals EXCEPT !.createdAt = now,
                                                        !.orderId = oid + 1]]
          /\ oid' = oid + 1
          /\ IF DbUnset
             THEN \* db.collection('orders') throws at line 154, caught at 169
                  Respond(r, FailedToCreateOrder)
             ELSE /\ pc' = [pc EXCEPT ![r] = "insertOne"]
                  /\ res' = [res EXCEPT ![r] = NoRes]
          /\ UNCHANGED <<lessons, orders, now, ewSpaces>>
  /\ UNCHANGED <<db, main>>

\* the document that insertOne stores: the payload with the stamped fields
OrderDocument(r, id) ==
  [_id |-> id, name |-> req[r].orderData.name, phone |-> req[r].orderData.phone,
   lessons |-> req[r].orderData.lessons, createdAt |-> loc[r].createdAt,
   orderId |-> loc[r].orderId]

\* ordersCollection.insertOne(orderData) completes; updateLessonSpaces is called
InsertOne(r) ==
  /\ Running
  /\ pc[r] = "insertOne"
  /\ orders' = Append(orders, OrderDocument(r, Len(orders) + 1))
  /\ loc' = [loc EXCEPT ![r].insertedId = Len(orders) + 1, ![r].i = 1]
  /\ pc' = [pc EXCEPT ![r] = "updateLessonSpaces"]
  /\ UNCHANGED <<lessons, now, oid, ewSpaces, req, res, db, main>>

\* --------------------------------------------------------- updateLessonSpaces
Max0(n) == IF n > 0 THEN n ELSE 0

\* the properties a line item of the payload carries
ItemProperties == {"id", "quantity"}

\* lessonInDb.spaces - lesson.<property>: NaN when the property is undefined
SpacesMinus(spaces, item, property) ==
  IF property \in ItemProperties /\ property = "quantity"
  THEN [isNaN |-> FALSE, value |-> spaces - item.quantity]
  ELSE [isNaN |-> TRUE,  value |-> 0]

\* the identifiers bound where line 313 reads newSpaces: the function's
\* parameter and locals, and the global that line 310 has just created
ScopeAtLine313 ==
  {"orderedLessons", "lessonsCollection", "lesson", "lessonInDb", "ewSpaces"}

\* lessonsCollection.findOne({_id}) on the collection ls
FindOne(ls, key) ==
  IF key \in DOMAIN ls
  THEN [isNull |-> FALSE, _id |-> key, spaces |-> ls[key].spaces]
  ELSE NullDoc

\* One iteration of the loop of updateLessonSpaces (lines 297-326) on the
\* collection ls.  outcome: "escaped"  the inner catch itself threw,
\* "caught" the inner catch logged an error, "skipped" lesson not found,
\* "updated" the updateOne of lines 316-319 was done
ProcessLine(lesson, ls, global) ==
  IF lesson.isNull
  THEN \* lesson.id throws a TypeError at line 301 and again at line 324
       [outcome |-> "escaped", lessonInDb |-> NullDoc, ls |-> ls, global |-> global]
  ELSE LET id == ObjectId(lesson.id) IN
       IF id.threw
       THEN [outcome |-> "caught", lessonInDb |-> NullDoc, ls |-> ls, global |-> global]
       ELSE LET lessonInDb == FindOne(ls, id.key) IN
            IF lessonInDb.isNull
            THEN [outcome |-> "skipped", lessonInDb |-> lessonInDb, ls |-> ls,
                  global |-> global]
            ELSE LET ew == SpacesMinus(lessonInDb.spaces, lesson, "quantityconst")
                     assigned == IF ew.isNaN THEN NaN ELSE "number"
                 IN  IF "newSpaces" \notin ScopeAtLine313
                     THEN \* ReferenceError at line 313, caught at line 323
                          [outcome |-> "caught", lessonInDb |-> lessonInDb,
                           ls |-> ls, global |-> assigned]
                     ELSE [outcome |-> "updated", lessonInDb |-> lessonInDb,
                           ls |-> [ls EXCEPT ![id.key].spaces = Max0(ew.value)],
                           global |-> assigned]

\* the loop body for the line item at loc[r].i
UpdateLessonSpacesLine(r) ==
  /\ Running
  /\ pc[r] = "updateLessonSpaces"
  /\ req[r].orderData.lessons.type = "array"
  /\ loc[r].i <= Len(req[r].orderData.lessons.items)
  /\ LET line == ProcessLine(req[r].orderData.lessons.items[loc[r].i],
                             lessons, ewSpaces)
     IN  /\ lessons' = line.ls
         /\ ewSpaces' = line.global
         /\ loc' = [loc EXCEPT ![r].i = @ + 1, ![r].lessonInDb = line.lessonInDb]
         /\ IF line.outcome = "escaped"
            THEN \* rethrown at line 332, caught by the route at index.js line 169
                 Respond(r, FailedToCreateOrder)
            ELSE UNCHANGED <<pc, res>>
  /\ UNCHANGED <<orders, now, oid, req, db, main>>

\* the loop ends (or cannot start: for...of over a non-iterable throws a
\* TypeError that line 332 rethrows), and the route answers
UpdateLessonSpacesReturn(r) ==
  /\ Running
  /\ pc[r] = "updateLessonSpaces"
  /\ \/ /\ req[r].orderData.lessons.type = "array"
        /\ loc[r].i > Len(req[r].orderData.lessons.items)
        /\ Respond(r, Created)
     \/ /\ req[r].orderData.lessons.type # "array"
        /\ Respond(r, FailedToCreateOrder)
  /\ UNCHANGED <<lessons, orders, now, oid, ewSpaces, req, loc, db, main>>

\* ---------------------------------------------------------- environment
\* the millisecond clock advances
Tick ==
  /\ now < MaxClock
  /\ now' = now + 1
  /\ UNCHANGED <<lessons, orders, oid, ewSpaces, pc, req, loc, res, db, main>>

\* -------------------------------------------------------- PUT /lessons/:id
\* the bodies that are put: partial lesson documents
UpdateBodies ==
  { EmptyBody,
    [spaces |-> -1],
    [spaces |-> 3],
    [price |-> 10, spaces |-> 0] }

\* lessonsCollection.updateOne({_id: key}, {$set: updateData}) on collection ls
UpdateOne(ls, key, updateData) ==
  IF key \notin DOMAIN ls
  THEN [matchedCount |-> 0, modifiedCount |-> 0, ls |-> ls]
  ELSE LET set == [f \in DOMAIN ls[key] |->
                     IF f \in DOMAIN updateData THEN updateData[f] ELSE ls[key][f]]
       IN  [matchedCount |-> 1,
            modifiedCount |-> IF set = ls[key] THEN 0 ELSE 1,
            ls |-> [ls EXCEPT ![key] = set]]

\* the catch block without its test of the error's name
PutLessonCatch_NameUntested(errorName) ==
  Json(500, "Failed to update lesson", {"error", "message"})

\* the catch block of the route (index.js lines 229-244)
PutLessonCatch(errorName) ==
  IF errorName = "BSONTypeError"
  THEN Json(400, "Invalid lesson ID format", {"error", "message"})
  ELSE Json(500, "Failed to update lesson", {"error", "message"})

\* the whole handler: it awaits one store operation, updateOne
PutLesson(r, lessonId, updateData) ==
  /\ Accepts(r)
  /\ req' = [req EXCEPT ![r] = [NoReq EXCEPT !.route = "PUT /lessons/:id",
                                             !.lessonId = lessonId,
                                             !.updateData = updateData]]
  /\ loc' = [loc EXCEPT ![r] = NoLocals]
  /\ IF DOMAIN updateData = {}
     THEN /\ Respond(r, Json(400, "No update data provided", {"error", "message"}))
          /\ UNCHANGED lessons
     ELSE IF DbUnset
     THEN \* db.collection('lessons') throws at line 197, caught at 229
          /\ Respond(r, PutLessonCatch("TypeError"))
          /\ UNCHANGED lessons
     ELSE LET id == ObjectId(lessonId) IN
          IF id.threw
          THEN /\ Respond(r, PutLessonCatch(id.name))
               /\ UNCHANGED lessons
          ELSE LET result == UpdateOne(lessons, id.key, updateData) IN
               /\ lessons' = result.ls
               /\ IF result.matchedCount = 0
                  THEN Respond(r, Json(404, "Lesson not found", {"error", "message"}))
                  ELSE IF result.modifiedCount = 0
                  THEN Respond(r, Json(200, "No changes made to lesson",
                                       {"message", "lessonId"}))
                  ELSE Respond(r, Json(200, "Lesson updated successfully",
                                       {"success", "message", "modifiedCount"}))
  /\ UNCHANGED <<orders, now, oid, ewSpaces, db, main>>

\* ------------------------------------------------------------- GET /orders
\* doc takes its place in a list sorted by createdAt descending: after every
\* element that is newer than doc (documents of equal createdAt keep the order
\* in which they were inserted)
RECURSIVE InsertByCreatedAt(_, _)
InsertByCreatedAt(doc, sorted) ==
  IF sorted = <<>> THEN <<doc>>
  ELSE IF Head(sorted).createdAt > doc.createdAt
       THEN <<Head(sorted)>> \o InsertByCreatedAt(doc, Tail(sorted))
       ELSE <<doc>> \o sorted

\* the query without its sort: the documents in insertion order
SortByCreatedAt_Unsorted(docs) == docs

\* find({}).sort({createdAt: -1}).toArray()
RECURSIVE SortByCreatedAt(_)
SortByCreatedAt(docs) ==
  IF docs = <<>> THEN <<>>
  ELSE InsertByCreatedAt(Head(docs), SortByCreatedAt(Tail(docs)))

GetOrders(r) ==
  /\ Accepts(r)
  /\ req' = [req EXCEPT ![r] = [NoReq EXCEPT !.route = "GET /orders"]]
  /\ loc' = [loc EXCEPT ![r] = NoLocals]
  /\ IF DbUnset
     THEN \* db.collection('orders') throws at line 342, caught at 355
          Respond(r, Json(500, "Failed to fetch orders", {"error", "message"}))
     ELSE Respond(r, JsonArray(200, SortByCreatedAt(orders)))
  /\ UNCHANGED <<lessons, orders, now, oid, ewSpaces, db, main>>

\* ------------------------------------------------------------- GET /search
UpperCase == <<"A", "B", "C", "D", "E", "F", "G", "H", "I", "J", "K", "L", "M",
               "N", "O", "P", "Q", "R", "S", "T", "U", "V", "W", "X", "Y", "Z">>
LowerCase == <<"a", "b", "c", "d", "e", "f", "g", "h", "i", "j", "k", "l", "m",
               "n", "o", "p", "q", "r", "s", "t", "u", "v", "w", "x", "y", "z">>

\* the case folding of option 'i'
ToLower(c) ==
  IF \E n \in DOMAIN UpperCase : UpperCase[n] = c
  THEN LowerCase[CHOOSE n \in DOMAIN UpperCase : UpperCase[n] = c]
  ELSE c

Digits == <<"0", "1", "2", "3", "4", "5", "6", "7", "8", "9">>

\* $toString of an integer
RECURSIVE toString(_)
toString(n) ==
  IF n < 0 THEN <<"-">> \o toString(0 - n)
  ELSE IF n < 10 THEN <<Digits[n + 1]>>
  ELSE toString(n \div 10) \o <<Digits[(n % 10) + 1]>>

\* searchTerm.trim() is the empty string
TrimIsEmpty(searchTerm) == \A n \in DOMAIN searchTerm : searchTerm[n] = " "

\* The store compiles the term as a regular expression.  The patterns of the
\* model are made of literal characters, '.' (any character) and '+' (one or
\* more of the preceding item; a second '+' makes it possessive).  A '+' with
\* nothing to repeat is a compile error.
RECURSIVE Compile(_, _, _)
Compile(pattern, n, atoms) ==
  IF n > Len(pattern) THEN [valid |-> TRUE, atoms |-> atoms]
  ELSE IF pattern[n] # "+"
       THEN Compile(pattern, n + 1, Append(atoms, [c |-> pattern[n], q |-> "1"]))
       ELSE IF atoms = <<>> THEN [valid |-> FALSE, atoms |-> <<>>]
            ELSE LET q == atoms[Len(atoms)].q IN
                 IF q = "1"
                 THEN Compile(pattern, n + 1, [atoms EXCEPT ![Len(atoms)].q = "+"])
                 ELSE IF q = "+"
                 THEN Compile(pattern, n + 1, [atoms EXCEPT ![Len(atoms)].q = "++"])
                 ELSE [valid |-> FALSE, atoms |-> <<>>]

\* atom character c matches input character x, ignoring case
CharMatches(c, x) == c = "." \/ ToLower(c) = ToLower(x)

\* the longest run of characters of input from position j that c matches
Run(c, input, j) ==
  CHOOSE n \in 0..(Len(input) - j + 1) :
    /\ \A m \in 0..(n - 1) : CharMatches(c, input[j + m])
    /\ n = Len(input) - j + 1 \/ ~CharMatches(c, input[j + n])

\* atoms k.. match input from position j on
RECURSIVE MatchesAt(_, _, _, _)
MatchesAt(atoms, k, input, j) ==
  IF k > Len(atoms) THEN TRUE
  ELSE LET run == Run(atoms[k].c, input, j) IN
       CASE atoms[k].q = "1"  -> run >= 1 /\ MatchesAt(atoms, k + 1, input, j + 1)
         [] atoms[k].q = "+"  -> \E n \in 1..run : MatchesAt(atoms, k + 1, input, j + n)
         [] atoms[k].q = "++" -> run >= 1 /\ MatchesAt(atoms, k + 1, input, j + run)

\* {$regex: pattern, $options: 'i'} on input; the pattern is known to compile
RegexMatch(pattern, input) ==
  \E j \in 1..(Len(input) + 1) : MatchesAt(Compile(pattern, 1, <<>>).atoms, 1, input, j)

\* the $or filter of the route (index.js lines 108-115) on one document
SearchFilter(searchTerm, doc) ==
  \/ RegexMatch(searchTerm, doc.subject)
  \/ RegexMatch(searchTerm, doc.location)
  \/ RegexMatch(searchTerm, toString(doc.price))
  \/ RegexMatch(searchTerm, toString(doc.spaces))

\* the documents of the collection in store order, each with its _id
NaturalOrder == <<"id1", "id2">>

Document(ls, key) ==
  [_id |-> key, subject |-> ls[key].subject, location |-> ls[key].location,
   price |-> ls[key].price, spaces |-> ls[key].spaces]

Documents(ls) == [n \in DOMAIN NaturalOrder |-> Document(ls, NaturalOrder[n])]

\* lessonsCollection.find({}).toArray()
FindAll(ls) == Documents(ls)

\* lessonsCollection.find({$or: [...]}).toArray() for a term that compiles
FindMatching(ls, searchTerm) ==
  SelectSeq(Documents(ls), LAMBDA doc : SearchFilter(searchTerm, doc))

\* the terms that are searched; req.query.query || '' makes an absent term ''
SearchTerms ==
  { <<>>, <<" ">>, <<"a">>, <<"A", "R", "T">>, <<"3">>, <<".">>,
    <<"c", "+", "+">>, <<"r", "+", "1">>, <<"+">>, <<"+", "+">> }

SearchFailed == Json(500, "Search failed", {"error", "message"})

\* the whole handler: it awaits one store operation, find
Search(r, searchTerm) ==
  /\ Accepts(r)
  /\ req' = [req EXCEPT ![r] = [NoReq EXCEPT !.route = "GET /search",
                                             !.query = searchTerm]]
  /\ loc' = [loc EXCEPT ![r] = NoLocals]
  /\ IF DbUnset
     THEN \* db.collection('lessons') throws at line 101 or 105, caught at 122
          Respond(r, SearchFailed)
     ELSE IF TrimIsEmpty(searchTerm)
     THEN Respond(r, JsonArray(200, FindAll(lessons)))
     ELSE IF ~Compile(searchTerm, 1, <<>>).valid
     THEN \* the store rejects the query; caught at line 122
          Respond(r, SearchFailed)
     ELSE Respond(r, JsonArray(200, FindMatching(lessons, searchTerm)))
  /\ UNCHANGED <<lessons, orders, now, oid, ewSpaces, db, main>>

\* ------------------------------------------------------------- GET /lessons
GetLessons(r) ==
  /\ Accepts(r)
  /\ req' = [req EXCEPT ![r] = [NoReq EXCEPT !.route = "GET /lessons"]]
  /\ loc' = [loc EXCEPT ![r] = NoLocals]
  /\ IF DbUnset
     THEN \* db.collection('lessons') throws at line 76, caught at 84
          Respond(r, Json(500, "Failed to fetch lessons", {"error", "message"}))
     ELSE Respond(r, JsonArray(200, FindAll(lessons)))
  /\ UNCHANGED <<lessons, orders, now, oid, ewSpaces, db, main>>

\* ------------------------------------------------------------ specifications
NextOrders ==
  \/ Tick
  \/ \E r \in Reqs :
       \/ \E orderData \in OrderBodies : PostOrders(r, orderData)
       \/ InsertOne(r)
       \/ UpdateLessonSpacesLine(r)
       \/ UpdateLessonSpacesReturn(r)

\* the order workflow: POST /orders with every payload, and the clock
SpecOrders == Init /\ [][NextOrders]_vars

\* order intake and listing: POST /orders with the payloads that fail the
\* validation and one that passes it, the clock, and GET /orders
IntakeBodies ==
  { Body("Ann", "07", LessonsArray(<<Item("id1", 5)>>)) } \cup MalformedBodies

NextIntake ==
  \/ Tick
  \/ \E r \in Reqs :
       \/ \E orderData \in IntakeBodies : PostOrders(r, orderData)
       \/ InsertOne(r)
       \/ UpdateLessonSpacesLine(r)
       \/ UpdateLessonSpacesReturn(r)
       \/ GetOrders(r)

SpecIntake == Init /\ [][NextIntake]_vars

\* the lesson routes: PUT /lessons/:id, GET /search and GET /lessons
NextLessons ==
  \E r \in Reqs :
    \/ \E lessonId \in IdStrings, updateData \in UpdateBodies :
         PutLesson(r, lessonId, updateData)
    \/ \E searchTerm \in SearchTerms : Search(r, searchTerm)
    \/ GetLessons(r)

SpecLessons == Init /\ [][NextLessons]_vars

\* the operations that write to the store, interleaved
SpacesBodies == {[spaces |-> -1], [spaces |-> 3]}

Next ==
  \/ NextOrders
  \/ \E r \in Reqs : \E updateData \in SpacesBodies : PutLesson(r, "id1", updateData)

Spec == Init /\ [][Next]_vars

\* ------------------------------------------------------------------- boot
\* the module has been loaded: app.listen has been called (index.js line 45),
\* db is declared without a value (line 52), and the call of connectToDatabase
\* at line 70 has run up to its await on client.connect() (line 56)
InitBoot ==
  /\ lessons = SeedLessons
  /\ orders = <<>>
  /\ now = 1
  /\ oid = 0
  /\ ewSpaces = Undefined
  /\ pc = [r \in Reqs |-> "idle"]
  /\ req = [r \in Reqs |-> NoReq]
  /\ loc = [r \in Reqs |-> NoLocals]
  /\ res = [r \in Reqs |-> NoRes]
  /\ db = Undefined
  /\ main = "connect"

\* client.connect() resolves: db is assigned (line 59) and connectToDatabase
\* awaits db.listCollections().toArray() (line 61)
Connect ==
  /\ main = "connect"
  /\ db' = "afterschool"
  /\ main' = "listCollections"
  /\ UNCHANGED <<lessons, orders, now, oid, ewSpaces, pc, req, loc, res>>

\* the listing resolves and connectToDatabase returns
ListCollections ==
  /\ main = "listCollections"
  /\ main' = "done"
  /\ UNCHANGED <<lessons, orders, now, oid, ewSpaces, pc, req, loc, res, db>>

\* either await rejects: the catch block ends the process (lines 64-67)
ConnectFails ==
  /\ main \in {"connect", "listCollections"}
  /\ main' = "exited"
  /\ UNCHANGED <<lessons, orders, now, oid, ewSpaces, pc, req, loc, res, db>>

\* the requests sent to the booting server
BootBodies == SpacesBodies \cup {EmptyBody}
BootTerms == {<<>>, <<"a", "r", "t">>}

NextBoot ==
  \/ Connect
  \/ ListCollections
  \/ ConnectFails
  \/ \E r \in Reqs :
       \/ GetLessons(r)
       \/ \E searchTerm \in BootTerms : Search(r, searchTerm)
       \/ \E orderData \in IntakeBodies : PostOrders(r, orderData)
       \/ InsertOne(r)
       \/ UpdateLessonSpacesLine(r)
       \/ UpdateLessonSpacesReturn(r)
       \/ \E updateData \in BootBodies : PutLesson(r, "id1", updateData)
       \/ GetOrders(r)

\* the process from the moment its module has been loaded
SpecBoot == InitBoot /\ [][NextBoot]_vars

\* ================================================================ properties
\* slot r has taken a step: it has received a request or its handler has moved
StepOf(r) == <<pc[r], req[r], loc[r], res[r]>>' # <<pc[r], req[r], loc[r], res[r]>>

IsPost(r)      == req[r].route = "POST /orders"
IsPut(r)       == req[r].route = "PUT /lessons/:id"
IsGetOrders(r) == req[r].route = "GET /orders"
IsSearch(r)    == req[r].route = "GET /search"

\* the line items of the order that slot r serves
Items(r) == req[r].orderData.lessons.items

\* a well-formed order: non-empty name and phone, and a list of line items
WellFormed(orderData) ==
  /\ orderData.name \notin {Undefined, ""}
  /\ orderData.phone \notin {Undefined, ""}
  /\ orderData.lessons.type = "array"
  /\ \A n \in DOMAIN orderData.lessons.items : ~orderData.lessons.items[n].isNull

\* slot r has just run the loop body on a line item that references an
\* existing lesson
ProcessedLine(r) ==
  /\ pc[r] = "updateLessonSpaces"
  /\ loc[r].i' = loc[r].i + 1
  /\ ~Items(r)[loc[r].i].isNull
  /\ Items(r)[loc[r].i].id \in DOMAIN lessons

\* the seats that the claim leaves in the lesson of the line just processed
Decremented(r) ==
  LET line == Items(r)[loc[r].i] IN
  lessons'[line.id].spaces = Max0(lessons[line.id].spaces - line.quantity)

\* C1 (as claimed): for a well-formed order, processing a line item
\* {id, quantity} whose id references an existing lesson with s seats leaves
\* max(0, s - quantity) seats in that lesson, and the order is answered 201.
C1_SpacesClamped ==
  /\ [][\A r \in Reqs :
          (IsPost(r) /\ WellFormed(req[r].orderData) /\ ProcessedLine(r))
             => Decremented(r)]_vars
  /\ [](\A r \in Reqs :
          (IsPost(r) /\ WellFormed(req[r].orderData) /\ pc[r] = "done")
             => res[r].status = 201)

\* C2 (as claimed): once the insert of an order has succeeded, the request is
\* answered 201 with the success flag whatever happens while the seats are
\* reconciled, and the order stays in the collection.
C2_CreatedWhateverReconciliation ==
  \A r \in Reqs :
    (IsPost(r) /\ pc[r] = "done" /\ loc[r].insertedId # 0)
      => /\ res[r].status = 201
         /\ "success" \in res[r].keys
         /\ \E n \in DOMAIN orders : orders[n]._id = loc[r].insertedId

\* a line whose reference is malformed or names no lesson
FailingLine(line) == ~line.isNull /\ line.id \notin DOMAIN lessons

\* an order that mixes failing lines with lines that reference a lesson
Mixed(orderData) ==
  /\ WellFormed(orderData)
  /\ \E n \in DOMAIN orderData.lessons.items : FailingLine(orderData.lessons.items[n])
  /\ \E n \in DOMAIN orderData.lessons.items :
        orderData.lessons.items[n].id \in DOMAIN lessons

\* C3 (as claimed): in an order that mixes failing and valid references the
\* failing line is skipped, every line that references an existing lesson is
\* still processed and updates the seats of its lesson, and the order is
\* answered 201.
C3_ValidLinesStillUpdated ==
  /\ [][\A r \in Reqs :
          (IsPost(r) /\ Mixed(req[r].orderData) /\ ProcessedLine(r))
             => Decremented(r)]_vars
  /\ [](\A r \in Reqs :
          (IsPost(r) /\ Mixed(req[r].orderData) /\ pc[r] = "done")
             => /\ res[r].status = 201
                /\ loc[r].i = Len(Items(r)) + 1)

\* a payload the claim calls rejected: name absent or empty, phone absent or
\* empty, or lessons absent
Rejectable(orderData) ==
  \/ orderData.name \in {Undefined, ""}
  \/ orderData.phone \in {Undefined, ""}
  \/ orderData.lessons = LessonsAbsent

\* C4: a POST /orders whose payload lacks name, phone or lessons is answered
\* 400 'Missing required fields' at once, and serving it changes neither the
\* orders nor the lessons.
C4_MissingFieldsRejected ==
  /\ [](\A r \in Reqs :
          (IsPost(r) /\ Rejectable(req[r].orderData))
             => /\ pc[r] = "done"
                /\ res[r].status = 400
                /\ res[r].text = "Missing required fields"
                /\ loc[r].insertedId = 0)
  /\ [][\A r \in Reqs :
          (StepOf(r) /\ IsPost(r)' /\ Rejectable(req[r].orderData)')
             => UNCHANGED store]_vars

\* a payload without phone has been rejected while an order is in the store
C4_Witness ==
  \E r \in Reqs :
    /\ IsPost(r) /\ pc[r] = "done"
    /\ req[r].orderData.phone = Undefined
    /\ res[r].status = 400
    /\ Len(orders) >= 1

\* C5 (as claimed): no lesson ever has a negative number of seats.
C5_SpacesNeverNegative ==
  \A k \in DOMAIN lessons : lessons[k].spaces >= 0

\* C6 (as claimed): every order in the collection has a non-empty name, a
\* non-empty phone and at least one line item.
C6_OrdersHaveLineItems ==
  \A n \in DOMAIN orders :
    /\ orders[n].name \notin {Undefined, ""}
    /\ orders[n].phone \notin {Undefined, ""}
    /\ orders[n].lessons.type = "array"
    /\ Len(orders[n].lessons.items) >= 1

\* every field of the body already has the proposed value in lesson k
AlreadyEqual(k, body) == \A f \in DOMAIN body : lessons[k][f] = body[f]

\* lesson k has the fields of the body and is otherwise as before; the other
\* lessons are as before
FieldsSet(k, body) ==
  /\ \A f \in DOMAIN body : lessons'[k][f] = body[f]
  /\ \A f \in LessonFields \ DOMAIN body : lessons'[k][f] = lessons[k][f]
  /\ \A j \in DOMAIN lessons \ {k} : lessons'[j] = lessons[j]

\* the outcome the claim gives a PUT with this identifier and body
PutOutcome(r, id, body) ==
  IF DOMAIN body = {}
  THEN res[r].status' = 400 /\ res[r].text' = "No update data provided"
       /\ UNCHANGED lessons
  ELSE IF id \notin ObjectIdStrings
  THEN res[r].status' = 400 /\ res[r].text' = "Invalid lesson ID format"
       /\ UNCHANGED lessons
  ELSE IF id \notin DOMAIN lessons
  THEN res[r].status' = 404 /\ res[r].text' = "Lesson not found"
       /\ UNCHANGED lessons
  ELSE IF AlreadyEqual(id, body)
  THEN res[r].status' = 200 /\ res[r].text' = "No changes made to lesson"
       /\ "modifiedCount" \notin res[r].keys'
       /\ UNCHANGED lessons
  ELSE res[r].status' = 200 /\ res[r].text' = "Lesson updated successfully"
       /\ "modifiedCount" \in res[r].keys'
       /\ FieldsSet(id, body)

\* C7: a PUT /lessons/:id has the outcome that the first applicable case
\* gives: empty body 400; identifier that is no store key 400 invalid-id;
\* no such lesson 404 and nothing changed; every field already equal 200 'no
\* changes' without modifiedCount; otherwise 200 with modifiedCount and the
\* fields of the lesson set to the payload.
C7_PutOutcome ==
  [][\A r \in Reqs :
       (StepOf(r) /\ IsPut(r)')
          => /\ pc[r]' = "done"
             /\ PutOutcome(r, req[r].lessonId', req[r].updateData')
             /\ UNCHANGED orders]_vars

\* a PUT whose body repeats the current values of a lesson that an earlier
\* PUT has modified has been answered 'no changes'
C7_Witness ==
  \E r \in Reqs :
    /\ IsPut(r) /\ pc[r] = "done"
    /\ res[r].text = "No changes made to lesson"
    /\ lessons # SeedLessons

\* the elements of a sequence
Range(seq) == {seq[n] : n \in DOMAIN seq}

\* C8 (as claimed): adjacent orders in the result of GET /orders have strictly
\* decreasing creation timestamps.
C8_StrictlyDescending ==
  \A r \in Reqs :
    (IsGetOrders(r) /\ pc[r] = "done")
      => \A n \in 1..(Len(res[r].data) - 1) :
            res[r].data[n].createdAt > res[r].data[n + 1].createdAt

\* C8 (amended): GET /orders answers 200 with all the orders of the
\* collection, and of two adjacent orders in the result the first is not
\* older than the second.
C8_Descending ==
  [][\A r \in Reqs :
       (StepOf(r) /\ IsGetOrders(r)')
          => /\ pc[r]' = "done"
             /\ res[r].status' = 200
             /\ Len(res[r].data') = Len(orders)
             /\ Range(res[r].data') = Range(orders)
             /\ \A n \in 1..(Len(res[r].data') - 1) :
                   res[r].data'[n].createdAt >= res[r].data'[n + 1].createdAt
             /\ UNCHANGED store]_vars

\* two orders with different timestamps are returned newest first, the
\* reverse of the order in which they were inserted
C8_Witness ==
  \E r \in Reqs :
    /\ IsGetOrders(r) /\ pc[r] = "done"
    /\ Len(res[r].data) = 2
    /\ res[r].data[1].createdAt > res[r].data[2].createdAt
    /\ res[r].data[1]._id > res[r].data[2]._id

\* term occurs in text as a substring, ignoring case
Occurs(term, text) ==
  \E j \in 0..(Len(text) - Len(term)) :
    \A n \in DOMAIN term : ToLower(term[n]) = ToLower(text[j + n])

\* C9 (as claimed): GET /search?query=T answers 200 with every lesson whose
\* subject or location contains T ignoring case, and changes nothing.
C9_SubstringFound ==
  [][\A r \in Reqs :
       (StepOf(r) /\ IsSearch(r)')
          => /\ \A k \in DOMAIN lessons :
                  (\/ Occurs(req[r].query', lessons[k].subject)
                   \/ Occurs(req[r].query', lessons[k].location))
                    => /\ res[r].status' = 200
                       /\ Document(lessons, k) \in Range(res[r].data')
             /\ UNCHANGED store]_vars

\* the line item of slot r whose lesson the last findOne returned
FoundLine(r) == Items(r)[loc[r].i - 1]

\* slot r has answered 201 for an order whose last line found lesson k with
\* s seats
Reconciled(r, k, s) ==
  /\ IsPost(r) /\ pc[r] = "done" /\ res[r].status = 201
  /\ ~loc[r].lessonInDb.isNull
  /\ loc[r].lessonInDb._id = k
  /\ loc[r].lessonInDb.spaces = s

\* C10 (as claimed): when two orders for the same lesson have both read s
\* seats, the lesson is left with max(0, s - q1) or max(0, s - q2) seats, and
\* both orders are persisted and answered 201.
C10_LostUpdate ==
  \A r1, r2 \in Reqs : \A k \in DOMAIN lessons :
    (r1 # r2 /\ Reconciled(r1, k, loc[r1].lessonInDb.spaces)
             /\ Reconciled(r2, k, loc[r1].lessonInDb.spaces))
      => /\ Len(orders) >= 2
         /\ \/ lessons[k].spaces
                 = Max0(loc[r1].lessonInDb.spaces - FoundLine(r1).quantity)
            \/ lessons[k].spaces
                 = Max0(loc[r2].lessonInDb.spaces - FoundLine(r2).quantity)

\* C11: db is assigned once and before any route runs: a request handler takes
\* a step only when db has its value, and db never changes once it has one
C11_DbSetBeforeServing ==
  [][ /\ \A r \in Reqs : StepOf(r) => db # Undefined
      /\ db # Undefined => db' = db ]_vars

====
